---- MODULE Spec2Model ----
(***************************************************************************)
(* The dispersion sweep of examples/linear_elasticity/dispersion_analysis  *)
(* (function main, from the assembly of the matrices M, K, S, R to the     *)
(* finalization of the eigenvalue log) as a state machine.                 *)
(*                                                                         *)
(* Numbers.  A matrix is a sequence of rows of complex entries <<re, im>>  *)
(* with integer parts.  The wave magnitudes of numpy.linspace(start, stop, *)
(* count) are the rationals wmag / Den with the common denominator         *)
(* Den = count - 1 (1 when count = 1): the model keeps the numerator wmag, *)
(* and mtx_a in units of 1 / Den^2, so all arithmetic is exact.            *)
(* The option log_std_waves keeps its default (False).                     *)
(***************************************************************************)
EXTENDS Integers, Sequences, FiniteSets

VARIABLES
    options,   \* parsed command line: wave_range, n_eigs, eigs_only
    pb,        \* what the equations M, K, S, R of the problem evaluate to
    mtx,       \* the locals mtx_m, mtx_k, mtx_s, mtx_r, mtx_a, mtx_b
    pc,        \* position in main()
    wmag_stepper, \* the iterator of the sweep: the index of its next step
    iv,        \* step index of the sweep loop
    wmag,      \* numerator of the wave magnitude of step iv
    eigs,      \* eigenvalues of the current step
    svecs,     \* reduced eigenvectors of the current step, or None
    omegas,    \* frequencies of the current step
    vecs,      \* full eigenvectors of the current step
    log,       \* the Log object: data, figure saved, finished
    out,       \* diagnostics written by output(): up-front and per step
    calls,     \* the eig_solver calls made so far
    nfull,     \* number of variables.make_full_vec calls made so far
    saved,     \* the eigenshape files written by pb.save_state
    exc,       \* the exception that left main(), or None
    ret        \* what main() handed back to its caller

vars == <<options, pb, mtx, pc, wmag_stepper, iv, wmag, eigs, svecs, omegas, vecs, log,
          out, calls, nfull, saved, exc, ret>>

(* Bounds of the model. *)
MaxCount == 2
MaxEigs == 2

\* None, as an exception or a return value, and as a matrix or an array.
None == "None"
Unset == "unset"
NoArray == <<>>
\* nan, as a frequency (the frequencies proper are >= 0).
NaN == -1

----------------------------------------------------------------------------
(* Complex numbers and matrices. *)

Max(S) == CHOOSE x \in S : \A y \in S : y <= x

RECURSIVE ISqrtFrom(_, _)
ISqrtFrom(x, r) == IF (r + 1) * (r + 1) > x THEN r ELSE ISqrtFrom(x, r + 1)

\* Integer part of the square root of x >= 0 (exact on perfect squares).
ISqrt(x) == ISqrtFrom(x, 0)

Idx(a) == 1..Len(a)

Real(a) == [i \in Idx(a) |-> [j \in Idx(a) |-> <<a[i][j], 0>>]]

CMul(c, z) == <<c[1] * z[1] - c[2] * z[2], c[1] * z[2] + c[2] * z[1]>>

\* nm.abs of a complex entry: its modulus (integer part).
CAbs(z) == ISqrt(z[1] * z[1] + z[2] * z[2])

MatAdd(a, b) ==
    [i \in Idx(a) |-> [j \in Idx(a) |->
        <<a[i][j][1] + b[i][j][1], a[i][j][2] + b[i][j][2]>>]]

MatSub(a, b) ==
    [i \in Idx(a) |-> [j \in Idx(a) |->
        <<a[i][j][1] - b[i][j][1], a[i][j][2] - b[i][j][2]>>]]

MatScale(c, a) == [i \in Idx(a) |-> [j \in Idx(a) |-> CMul(c, a[i][j])]]

MatNeg(a) == MatScale(<<-1, 0>>, a)

\* mtx.T
MatT(a) == [i \in Idx(a) |-> [j \in Idx(a) |-> a[j][i]]]

\* mtx.H
MatH(a) == [i \in Idx(a) |-> [j \in Idx(a) |-> <<a[j][i][1], -a[j][i][2]>>]]

\* The stored (nonzero) entries of a sparse matrix.
MatData(a) == {p \in Idx(a) \X Idx(a) : a[p[1]][p[2]] /= <<0, 0>>}

\* _max_diff_csr(mtx1, mtx2)
max_diff_csr(mtx1, mtx2) ==
    LET d == MatSub(mtx1, mtx2)
        aux == {CAbs(d[p[1]][p[2]]) : p \in MatData(d)}
    IN IF aux /= {} THEN Max(aux) ELSE 0

----------------------------------------------------------------------------
(* Inputs: the command line and the discretized problem. *)

\* (start, stop) of --wave-range; count ranges over 1..MaxCount.
WaveEnds == {<<0, 1>>, <<0, 2>>, <<1, 1>>, <<1, 2>>}

Options ==
    {[wave_range |-> <<w[1], w[2], c>>, n_eigs |-> n, eigs_only |-> e] :
        w \in WaveEnds, c \in 1..MaxCount, n \in 1..MaxEigs, e \in BOOLEAN}

Problem(m, k, s, r) == [M |-> Real(m), K |-> Real(k), S |-> Real(s), R |-> Real(r)]

\* A periodic cell with symmetric K, S and antisymmetric R, one with an
\* asymmetric K and S and a symmetric R, and a cell with a single DOF.
Problems ==
    { Problem(<<<<1, 0>>, <<0, 1>>>>, <<<<2, 1>>, <<1, 2>>>>,
              <<<<1, 0>>, <<0, 1>>>>, <<<<0, 1>>, <<-1, 0>>>>),
      Problem(<<<<1, 0>>, <<0, 1>>>>, <<<<2, 1>>, <<0, 2>>>>,
              <<<<1, 1>>, <<0, 1>>>>, <<<<0, 1>>, <<1, 0>>>>),
      Problem(<<<<1>>>>, <<<<1>>>>, <<<<1>>>>, <<<<0>>>>) }

\* All 2 x 2 cells with unit diagonals of K and S and any off-diagonal
\* entries: every combination of symmetric or not, antisymmetric or not.
OffDiag(a, b) == <<<<1, a>>, <<b, 1>>>>

ZeroDiag(a, b) == <<<<0, a>>, <<b, 0>>>>

AllProblems ==
    { Problem(<<<<1, 0>>, <<0, 1>>>>, OffDiag(k[1], k[2]), OffDiag(s[1], s[2]),
              ZeroDiag(r[1], r[2])) :
        k \in (0..1) \X (0..1), s \in (0..1) \X (0..1),
        r \in (-1..1) \X (-1..1) }

----------------------------------------------------------------------------
(* The collaborators of main(). *)

\* TimeStepper(start, stop, n_step=count): the common denominator of the
\* magnitudes of numpy.linspace(start, stop, count) ...
Den(rng) == IF rng[3] > 1 THEN rng[3] - 1 ELSE 1

\* ... and the numerator of the magnitude of step k (k = 0 .. count - 1).
Wmag(rng, k) == rng[1] * Den(rng) + k * (rng[2] - rng[1])

\* The eigenvalues a solve may return: sorted ascending, n of them.
EigVals == {-2, -1, 0, 4}

SolverResults(n) ==
    {e \in [1..n -> EigVals] : \A i \in 1..(n - 1) : e[i] <= e[i + 1]}

\* The failures of a solve.
SolverErrors == {"ConvergenceError", "SingularMatrixError"}

----------------------------------------------------------------------------
(* The steps of main(). *)

Init ==
    /\ options \in Options
    /\ pb \in Problems
    /\ mtx = [m |-> NoArray, k |-> NoArray, s |-> NoArray, r |-> NoArray,
              a |-> NoArray, b |-> NoArray]
    /\ pc = "assemble"
    /\ wmag_stepper = 0
    /\ iv = 0
    /\ wmag = 0
    /\ eigs = NoArray
    /\ svecs = NoArray
    /\ omegas = NoArray
    /\ vecs = NoArray
    /\ log = [n_eigs |-> 0, data |-> <<>>, figures |-> 0, finished |-> 0]
    /\ out = [sym |-> <<>>, herm |-> <<>>]
    /\ calls = <<>>
    /\ nfull = 0
    /\ saved = <<>>
    /\ exc = None
    /\ ret = Unset

\* mtx_m = pb.mtx_a.copy(); mtx_m = eq_m.evaluate(..., asm_obj=mtx_m); ...
AssembleBase ==
    /\ pc = "assemble"
    /\ mtx' = [mtx EXCEPT !.m = pb.M, !.k = pb.K, !.s = pb.S, !.r = pb.R]
    /\ pc' = "symmetry"
    /\ UNCHANGED <<options, pb, wmag_stepper, iv, wmag, eigs, svecs, omegas, vecs, log, out,
                   calls, nfull, saved, exc, ret>>

\* output('M - M^T:', _max_diff_csr(mtx_m, mtx_m.T)) ...
SymmetryReport(m) ==
    [M |-> max_diff_csr(m.m, MatT(m.m)),
     K |-> max_diff_csr(m.k, MatT(m.k)),
     S |-> max_diff_csr(m.s, MatT(m.s)),
     R |-> max_diff_csr(m.r, MatNeg(MatT(m.r)))]

SymmetryChecks ==
    /\ pc = "symmetry"
    /\ out' = [out EXCEPT !.sym = SymmetryReport(mtx)]
    /\ pc' = "create_log"
    /\ UNCHANGED <<options, pb, mtx, wmag_stepper, iv, wmag, eigs, svecs, omegas, vecs, log,
                   calls, nfull, saved, exc, ret>>

\* log = Log(...)
CreateLog ==
    /\ pc = "create_log"
    /\ log' = [n_eigs |-> options.n_eigs, data |-> <<>>, figures |-> 0,
               finished |-> 0]
    /\ pc' = "loop"
    /\ UNCHANGED <<options, pb, mtx, wmag_stepper, iv, wmag, eigs, svecs, omegas, vecs, out,
                   calls, nfull, saved, exc, ret>>

\* for iv, wmag in wmag_stepper: the next step ...
NextStep ==
    /\ pc = "loop"
    /\ wmag_stepper < options.wave_range[3]
    /\ iv' = wmag_stepper
    /\ wmag' = Wmag(options.wave_range, wmag_stepper)
    /\ wmag_stepper' = wmag_stepper + 1
    /\ pc' = "matrix"
    /\ UNCHANGED <<options, pb, mtx, eigs, svecs, omegas, vecs, log, out,
                   calls, nfull, saved, exc, ret>>

\* ... or the end of the sweep.
EndSweep ==
    /\ pc = "loop"
    /\ ~(wmag_stepper < options.wave_range[3])
    /\ pc' = "save_figure"
    /\ UNCHANGED <<options, pb, mtx, wmag_stepper, iv, wmag, eigs, svecs, omegas, vecs, log,
                   out, calls, nfull, saved, exc, ret>>

\* Mutation of AssembleA: the factor 1j of the R term is lost.
AssembleAReal(k, s, r, num, den) ==
    MatAdd(MatAdd(MatScale(<<den * den, 0>>, k), MatScale(<<num * num, 0>>, s)),
           MatScale(<<num * den, 0>>, r))

\* mtx_k + wmag**2 * mtx_s + (1j * wmag) * mtx_r, for wmag = num / den, in
\* units of 1 / den^2.
AssembleA(k, s, r, num, den) ==
    MatAdd(MatAdd(MatScale(<<den * den, 0>>, k), MatScale(<<num * num, 0>>, s)),
           MatScale(<<0, num * den>>, r))

\* Mutation of StepMatrices: A is accumulated in place, in mtx_k.
StepMatricesInPlace(m, num, den) ==
    [m EXCEPT !.k = AssembleA(m.k, m.s, m.r, num, den),
              !.a = AssembleA(m.k, m.s, m.r, num, den), !.b = m.m]

\* mtx_a = ...; mtx_b = mtx_m
StepMatrices(m, num, den) ==
    [m EXCEPT !.a = AssembleA(m.k, m.s, m.r, num, den), !.b = m.m]

AssembleStep ==
    /\ pc = "matrix"
    /\ mtx' = StepMatrices(mtx, wmag, Den(options.wave_range))
    /\ pc' = "hermitian"
    /\ UNCHANGED <<options, pb, wmag_stepper, iv, wmag, eigs, svecs, omegas, vecs, log, out,
                   calls, nfull, saved, exc, ret>>

\* Mutation of AfterDiagnostic: a nonzero diagnostic is an error.
AfterDiagnosticStrict(d) ==
    IF d > 0 THEN pc' = "raised" /\ exc' = "SymmetryError"
             ELSE pc' = "solve" /\ exc' = exc

\* Where main() goes after the A - A^H diagnostic d was written.
AfterDiagnostic(d) ==
    /\ pc' = "solve"
    /\ exc' = exc

\* output('symmetry check of complex matrix A - A^H:', ...)
HermitianCheck ==
    /\ pc = "hermitian"
    /\ out' = [out EXCEPT !.herm = Append(@, max_diff_csr(mtx.a, MatH(mtx.a)))]
    /\ AfterDiagnostic(max_diff_csr(mtx.a, MatH(mtx.a)))
    /\ UNCHANGED <<options, pb, mtx, wmag_stepper, iv, wmag, eigs, svecs, omegas, vecs, log,
                   calls, nfull, saved, ret>>

\* Mutation of Raise: the failed step is skipped and the sweep goes on.
RaiseAndContinue(e) ==
    /\ exc' = e
    /\ pc' = "loop"

\* Mutation of Raise: the log is finalized on the way out.
RaiseAndFinalize(e) ==
    /\ exc' = e
    /\ pc' = "save_figure"

\* An exception raised inside the loop: no handler, it leaves main().
Raise(e) ==
    /\ exc' = e
    /\ pc' = "raised"

\* Mutation of WantVectors: the eigenvectors are always asked for.
WantVectorsAlways(opts) == TRUE

\* The eigenvectors flag of the eig_solver call.
WantVectors(opts) == ~opts.eigs_only

SolverCall == [iv |-> iv, n |-> Len(mtx.a), n_eigs |-> options.n_eigs,
               eigenvectors |-> WantVectors(options)]

\* eigs[, svecs] = eig_solver(mtx_a, mtx_b, n_eigs=..., eigenvectors=...)
SolveOk ==
    /\ pc = "solve"
    /\ calls' = Append(calls, SolverCall)
    /\ \E e \in SolverResults(options.n_eigs) :
          /\ eigs' = e
          /\ svecs' = IF WantVectors(options)
                         THEN [ii \in 1..Len(e) |-> [step |-> iv, ii |-> ii]]
                         ELSE NoArray
    /\ pc' = "sqrt"
    /\ UNCHANGED <<options, pb, mtx, wmag_stepper, iv, wmag, omegas, vecs, log, out, nfull,
                   saved, exc, ret>>

SolveRaise ==
    /\ pc = "solve"
    /\ calls' = Append(calls, SolverCall)
    /\ \E e \in SolverErrors : Raise(e)
    /\ UNCHANGED <<options, pb, mtx, wmag_stepper, iv, wmag, eigs, svecs, omegas, vecs, log,
                   out, nfull, saved, ret>>

\* Mutation of After: the full vectors are made and saved before the record
\* is logged.
AfterSaveFirst(at) ==
    CASE at = "sqrt" -> IF svecs /= NoArray THEN "full_vecs" ELSE "log"
      [] at = "full_vecs" -> "save_state"
      [] at = "save_state" -> "log"
      [] at = "log" -> "loop"

\* The statements of a step after the solve, in their order: derive the
\* frequencies, log the record, and (with eigenvectors) make the full
\* vectors and save them.
After(at) ==
    CASE at = "sqrt" -> "log"
      [] at = "log" -> IF svecs /= NoArray THEN "full_vecs" ELSE "loop"
      [] at = "full_vecs" -> "save_state"
      [] at = "save_state" -> "loop"

\* nm.sqrt of a real: the root, nan below zero.
Sqrt(x) == IF x < 0 THEN NaN ELSE ISqrt(x)

\* omegas = nm.sqrt(eigs)
Omegas(e) == [i \in 1..Len(e) |-> Sqrt(e[i])]

DeriveOmegas ==
    /\ pc = "sqrt"
    /\ omegas' = Omegas(eigs)
    /\ pc' = After("sqrt")
    /\ UNCHANGED <<options, pb, mtx, wmag_stepper, iv, wmag, eigs, svecs, vecs, log, out,
                   calls, nfull, saved, exc, ret>>

\* Mutation of LogCall: the record is put in front of the earlier ones.
LogCallFirst(lg, e, o, x) ==
    [lg EXCEPT !.data = <<[x |-> x, eigs |-> e, omegas |-> o]>> \o @]

\* out = tuple(eigs) + tuple(omegas); log(*out, x=[wmag, wmag])
LogCall(lg, e, o, x) ==
    [lg EXCEPT !.data = Append(@, [x |-> x, eigs |-> e, omegas |-> o])]

LogStep ==
    /\ pc = "log"
    /\ log' = LogCall(log, eigs, omegas, wmag)
    /\ pc' = After("log")
    /\ UNCHANGED <<options, pb, mtx, wmag_stepper, iv, wmag, eigs, svecs, omegas, vecs, out,
                   calls, nfull, saved, exc, ret>>

\* vecs[:, ii] = variables.make_full_vec(svecs[:, ii])
MakeFullVecs ==
    /\ pc = "full_vecs"
    /\ vecs' = [ii \in 1..Len(svecs) |-> [full |-> svecs[ii]]]
    /\ nfull' = nfull + Len(svecs)
    /\ pc' = After("full_vecs")
    /\ UNCHANGED <<options, pb, mtx, wmag_stepper, iv, wmag, eigs, svecs, omegas, log, out,
                   calls, saved, exc, ret>>

\* pb.save_state(eigenshapes_filename % iv, out=out)
SaveOk ==
    /\ pc = "save_state"
    /\ saved' = Append(saved, [iv |-> iv, out |-> [ii \in 1..Len(eigs) |-> vecs[ii]]])
    /\ pc' = After("save_state")
    /\ UNCHANGED <<options, pb, mtx, wmag_stepper, iv, wmag, eigs, svecs, omegas, vecs, log,
                   out, calls, nfull, exc, ret>>

SaveRaise ==
    /\ pc = "save_state"
    /\ Raise("IOError")
    /\ UNCHANGED <<options, pb, mtx, wmag_stepper, iv, wmag, eigs, svecs, omegas, vecs, log,
                   out, calls, nfull, saved, ret>>

\* log(save_figure=...)
SaveFigure ==
    /\ pc = "save_figure"
    /\ log' = [log EXCEPT !.figures = @ + 1]
    /\ pc' = "finish"
    /\ UNCHANGED <<options, pb, mtx, wmag_stepper, iv, wmag, eigs, svecs, omegas, vecs, out,
                   calls, nfull, saved, exc, ret>>

\* log(finished=True), and main() falls off its end.
Finish ==
    /\ pc = "finish"
    /\ log' = [log EXCEPT !.finished = @ + 1]
    /\ pc' = "done"
    /\ ret' = None
    /\ UNCHANGED <<options, pb, mtx, wmag_stepper, iv, wmag, eigs, svecs, omegas, vecs, out,
                   calls, nfull, saved, exc>>

Next ==
    \/ AssembleBase
    \/ SymmetryChecks
    \/ CreateLog
    \/ NextStep
    \/ EndSweep
    \/ AssembleStep
    \/ HermitianCheck
    \/ SolveOk
    \/ SolveRaise
    \/ DeriveOmegas
    \/ LogStep
    \/ MakeFullVecs
    \/ SaveOk
    \/ SaveRaise
    \/ SaveFigure
    \/ Finish

Spec == Init /\ [][Next]_vars

\* The sweep over every 2 x 2 cell of AllProblems, one eigenvalue wanted.
InitAll ==
    /\ options \in {o \in Options : o.n_eigs = 1}
    /\ pb \in AllProblems
    /\ mtx = [m |-> NoArray, k |-> NoArray, s |-> NoArray, r |-> NoArray,
              a |-> NoArray, b |-> NoArray]
    /\ pc = "assemble"
    /\ wmag_stepper = 0
    /\ iv = 0
    /\ wmag = 0
    /\ eigs = NoArray
    /\ svecs = NoArray
    /\ omegas = NoArray
    /\ vecs = NoArray
    /\ log = [n_eigs |-> 0, data |-> <<>>, figures |-> 0, finished |-> 0]
    /\ out = [sym |-> <<>>, herm |-> <<>>]
    /\ calls = <<>>
    /\ nfull = 0
    /\ saved = <<>>
    /\ exc = None
    /\ ret = Unset

SpecAll == InitAll /\ [][Next]_vars

----------------------------------------------------------------------------
(* Properties. *)

Start == options.wave_range[1]
Stop == options.wave_range[2]
Count == options.wave_range[3]

\* The sweep loop is over.
SweepOver == pc \in {"save_figure", "finish", "done"}

\* Inside a step, after mtx_a and mtx_b were set.
InStep == pc \in {"hermitian", "solve", "sqrt", "log", "full_vecs", "save_state"}

\* C1: for start < stop, when the sweep loop is over the log holds exactly
\* count records, the k-th record carries the k-th magnitude of the sweep,
\* and the magnitudes increase strictly: none twice, skipped or out of order.
C1_RecordsFollowSweep ==
    /\ Len(log.data) <= Count
    /\ \A k \in 1..Len(log.data) :
          log.data[k].x = Wmag(options.wave_range, k - 1)
    /\ SweepOver => Len(log.data) = Count
    /\ Start < Stop =>
          \A k \in 1..(Len(log.data) - 1) : log.data[k].x < log.data[k + 1].x

C1_Witness ==
    /\ pc = "done"
    /\ Start < Stop
    /\ Len(log.data) >= 2
    /\ log.data[1].x < log.data[2].x

\* C2: with eigs_only every solver call has eigenvectors=False, no full
\* vector is made, no eigenshape file is saved, nothing but the solver can
\* fail, and a sweep that ends has called the solver and logged a record
\* for every step.
C2_EigsOnlySkipsVectors ==
    options.eigs_only =>
        /\ \A k \in 1..Len(calls) : ~calls[k].eigenvectors
        /\ svecs = NoArray
        /\ nfull = 0
        /\ saved = <<>>
        /\ exc \in {None} \cup SolverErrors
        /\ SweepOver => Len(calls) = Count /\ Len(log.data) = Count

C2_Witness ==
    /\ options.eigs_only
    /\ pc = "done"
    /\ Len(calls) >= 2
    /\ Len(log.data) = Len(calls)

\* C3: from the initial assembly on, mtx_m, mtx_k, mtx_s, mtx_r keep the
\* values they were assembled to, at every step and after the sweep, and the
\* A of step iv is the one assembled from them and the magnitude of step iv.
C3_BaseMatricesKept ==
    /\ pc /= "assemble" =>
          mtx.m = pb.M /\ mtx.k = pb.K /\ mtx.s = pb.S /\ mtx.r = pb.R
    /\ InStep =>
          /\ mtx.a = AssembleA(pb.K, pb.S, pb.R, Wmag(options.wave_range, iv),
                               Den(options.wave_range))
          /\ mtx.b = pb.M

C3_Witness ==
    /\ pc = "done"
    /\ Len(log.data) >= 2
    /\ wmag > 0
    /\ mtx.a /= mtx.k
    /\ mtx.k = pb.K

\* A run that a failing solve has ended.
SolverFailed == exc \in SolverErrors

\* The log only grows: the records it holds stay as they are.
LogKept ==
    \A k \in 1..Len(log.data) :
        Len(log.data') >= k /\ log.data'[k] = log.data[k]

C4_AbortState ==
    SolverFailed =>
        /\ pc = "raised"
        /\ Len(calls) = iv + 1
        /\ \A k \in 1..Len(calls) : calls[k].iv = k - 1
        /\ wmag_stepper = iv + 1
        /\ Len(log.data) = iv
        /\ \A k \in 1..Len(log.data) :
              log.data[k].x = Wmag(options.wave_range, k - 1)
        /\ log.figures = 0
        /\ log.finished = 0
        /\ ret = Unset

C5_NoSolveBeyondDimension ==
    \A k \in 1..Len(calls) : calls[k].n_eigs <= calls[k].n

\* The negative eigenvalues of EigVals within the tolerance of zero.
NoiseEigs == {-1}

\* C6 as stated: in every record a negative eigenvalue within the tolerance
\* has the frequency 0, a negative eigenvalue outside it has nan, and an
\* eigenvalue >= 0 has its square root.
C6_NoiseClampedToZero ==
    \A k \in 1..Len(log.data) :
        \A i \in 1..Len(log.data[k].eigs) :
            LET e == log.data[k].eigs[i]
                o == log.data[k].omegas[i]
            IN /\ e \in NoiseEigs => o = 0
               /\ (e < 0 /\ e \notin NoiseEigs) => o = NaN
               /\ e >= 0 => o * o = e

\* C7: whatever the diagnostics are, they are only written: no failure
\* comes from them, every step writes its A - A^H diagnostic and then calls
\* the solver, and a sweep that ends has logged a record for every step.
C7_DiagnosticsOnlyReport ==
    /\ exc \in {None, "IOError"} \cup SolverErrors
    /\ Len(out.herm) =
          wmag_stepper - (IF pc \in {"matrix", "hermitian"} THEN 1 ELSE 0)
    /\ Len(calls) = Len(out.herm) - (IF pc = "solve" THEN 1 ELSE 0)
    /\ SweepOver => Len(log.data) = Count

C7_Witness ==
    /\ pc = "done"
    /\ out.sym.K > 0
    /\ out.sym.S > 0
    /\ out.sym.R > 0
    /\ \E k \in 1..Len(out.herm) : out.herm[k] > 0
    /\ Len(calls) >= 2
    /\ Len(log.data) = Count

IsSymmetric(a) == a = MatT(a)

IsAntisymmetric(a) == a = MatNeg(MatT(a))

\* C8: with K and S symmetric and R antisymmetric, the A of every step is
\* Hermitian and each A - A^H diagnostic written is 0.
C8_AssembledHermitian ==
    (IsSymmetric(pb.K) /\ IsSymmetric(pb.S) /\ IsAntisymmetric(pb.R)) =>
        /\ InStep => mtx.a = MatH(mtx.a)
        /\ \A k \in 1..Len(out.herm) : out.herm[k] = 0

C8_Witness ==
    /\ IsSymmetric(pb.K) /\ IsSymmetric(pb.S) /\ IsAntisymmetric(pb.R)
    /\ pc = "done"
    /\ Len(out.herm) >= 2
    /\ wmag > 0
    /\ mtx.a[1][2][1] /= 0
    /\ mtx.a[1][2][2] /= 0

\* C9 as stated: with eigenvectors wanted, the record of a step is appended
\* to the log only after the full eigenvectors of that step were saved.
C9_RecordAfterSave ==
    ~options.eigs_only => Len(log.data) <= Len(saved)

\* C9, amended: a step assembles, writes the diagnostic, solves, derives the
\* frequencies and appends its record to the log, and only then, with
\* eigenvectors wanted, makes the full eigenvectors and saves them: the
\* record of step iv is in the log before the eigenvectors of step iv are
\* made and saved, and these are saved before the next step starts.
C9_RecordBeforeSave ==
    /\ Len(saved) <= Len(log.data)
    /\ Len(log.data) <= Len(calls)
    /\ Len(calls) <= Len(out.herm)
    /\ Len(out.herm) <= wmag_stepper
    /\ wmag_stepper <= Len(saved) + 1 \/ options.eigs_only
    /\ pc = "log" => Len(calls) = iv + 1 /\ Len(omegas) = Len(eigs)
    /\ pc \in {"full_vecs", "save_state"} =>
          Len(log.data) = iv + 1 /\ Len(saved) = iv
    /\ pc = "full_vecs" => nfull = options.n_eigs * iv
    /\ pc = "save_state" => nfull = options.n_eigs * (iv + 1)
    /\ nfull <= options.n_eigs * Len(log.data)
    /\ (pc = "loop" /\ ~options.eigs_only) => Len(saved) = Len(log.data)

C9_Witness ==
    /\ ~options.eigs_only
    /\ pc = "full_vecs"
    /\ iv >= 1
    /\ Len(log.data) = iv + 1
    /\ Len(saved) = iv
    /\ nfull = options.n_eigs * iv

\* The log is finalized at most once, the figure first, and only after the
\* last step of a sweep that did not fail.
FinalizedOnce ==
    /\ log.figures <= 1
    /\ log.finished <= log.figures
    /\ log.figures >= 1 =>
          /\ exc = None
          /\ wmag_stepper = Count
          /\ Len(log.data) = Count
          /\ ~options.eigs_only => Len(saved) = Count
    /\ pc = "done" => log.figures = 1 /\ log.finished = 1

\* C10 as stated: the log is finalized once, after the last record, and a
\* run in which the solver or the eigenshape save raises at step iv never
\* finalizes it and leaves it with the records of the steps before iv only.
C10_FailureLeavesEarlierRecords ==
    /\ FinalizedOnce
    /\ exc /= None =>
          /\ pc = "raised"
          /\ log.figures = 0
          /\ log.finished = 0
          /\ Len(log.data) = iv

\* C10, amended: as stated, but a run in which the eigenshape save raises at
\* step iv leaves the log with the record of step iv as well, appended
\* before the save.
C10_FailureLeavesLogUnfinished ==
    /\ FinalizedOnce
    /\ exc /= None =>
          /\ pc = "raised"
          /\ log.figures = 0
          /\ log.finished = 0
          /\ Len(log.data) = (IF exc = "IOError" THEN iv + 1 ELSE iv)

C10_Witness ==
    /\ exc = "IOError"
    /\ pc = "raised"
    /\ iv >= 1
    /\ Len(log.data) = iv + 1
    /\ Len(saved) = iv
    /\ log.finished = 0

====
